---- MODULE Spec2Model ----
(***************************************************************************)
(* A model of jsonc-wasm: the lexer of src/src/lexer.rs, the value tree    *)
(* and serializer of src/src/node.rs and the entry point to_json_string of *)
(* src/src/lib.rs.  Text is a sequence of characters; a character is the   *)
(* string that names it, itself for an ASCII character.  A cursor is the   *)
(* number of characters the Peekable<Enumerate<Chars>> iterator has        *)
(* yielded so far, so the character at cursor i has the Rust index i and   *)
(* is input[i + 1].                                                        *)
(***************************************************************************)
EXTENDS Integers, Sequences, FiniteSets, TLC

VARIABLES input, pos, tokens, last, pc, lexResult, parseResult, result

vars == <<input, pos, tokens, last, pc, lexResult, parseResult, result>>

(***************************************************************************)
(* Bounds of the input families.                                           *)
(***************************************************************************)
MaxLen == 2
MaxNumLen == 3
MaxWords == 3
MaxUnits == 3
MaxTrivia == 1
MaxCommentLen == 4
MaxSpaceLen == 4
MaxItems == 2

(***************************************************************************)
(* Characters.                                                             *)
(***************************************************************************)
Quote == "\""
Backslash == "\\"
LineFeed == "\n"
Tab == "\t"
Space == " "
\* U+00BD VULGAR FRACTION ONE HALF: general category No, not a digit.
VulgarHalf == "U+00BD"

AsciiDigits == {"0", "1", "3", "8"}

Alphabet ==
    {Tab, LineFeed, Space, Quote, "*", ",", "-", ".", "/", ":", "E", "[",
     Backslash, "]", "a", "b", "d", "e", "f", "l", "n", "r", "s", "t", "u",
     "z", "{", "}", VulgarHalf} \cup AsciiDigits

\* The Unicode scalar value of a character: the order of String's Ord.
CodePoint(c) ==
    CASE c = Tab -> 9 [] c = LineFeed -> 10 [] c = Space -> 32
      [] c = Quote -> 34 [] c = "*" -> 42 [] c = "," -> 44 [] c = "-" -> 45
      [] c = "." -> 46 [] c = "/" -> 47 [] c = "0" -> 48 [] c = "1" -> 49
      [] c = "3" -> 51 [] c = "8" -> 56 [] c = ":" -> 58 [] c = "E" -> 69
      [] c = "[" -> 91 [] c = Backslash -> 92 [] c = "]" -> 93
      [] c = "a" -> 97 [] c = "b" -> 98 [] c = "d" -> 100 [] c = "e" -> 101
      [] c = "f" -> 102 [] c = "l" -> 108 [] c = "n" -> 110 [] c = "r" -> 114
      [] c = "s" -> 115 [] c = "t" -> 116 [] c = "u" -> 117 [] c = "z" -> 122
      [] c = "{" -> 123 [] c = "}" -> 125 [] c = VulgarHalf -> 189

Min(a, b) == IF a <= b THEN a ELSE b

RECURSIVE Flatten(_)
Flatten(ss) == IF ss = <<>> THEN <<>> ELSE Head(ss) \o Flatten(Tail(ss))

\* All sequences over S of length at most n.
SeqsUpTo(S, n) == UNION {[1..k -> S] : k \in 0..n}

(***************************************************************************)
(* src/src/token.rs: tokens and lexer errors.  Every token is a record of  *)
(* the same shape; the fields a kind does not carry keep their defaults.   *)
(***************************************************************************)
Tok(kind, text, flag, length) ==
    [kind |-> kind, text |-> text, flag |-> flag, length |-> length]

OpenBrace == Tok("OpenBrace", <<>>, FALSE, 0)
CloseBrace == Tok("CloseBrace", <<>>, FALSE, 0)
OpenBracket == Tok("OpenBracket", <<>>, FALSE, 0)
CloseBracket == Tok("CloseBracket", <<>>, FALSE, 0)
Colon == Tok("Colon", <<>>, FALSE, 0)
Comma == Tok("Comma", <<>>, FALSE, 0)
BreakLine == Tok("BreakLine", <<>>, FALSE, 0)
Null == Tok("Null", <<>>, FALSE, 0)
StringValue(text) == Tok("StringValue", text, FALSE, 0)
Number(text) == Tok("Number", text, FALSE, 0)
Boolean(flag) == Tok("Boolean", <<>>, flag, 0)
CommentLine(text) == Tok("CommentLine", text, FALSE, 0)
CommentBlock(text) == Tok("CommentBlock", text, FALSE, 0)
WhiteSpaces(length) == Tok("WhiteSpaces", <<>>, FALSE, length)

NoToken == Tok("None", <<>>, FALSE, 0)

LexErr(kind, text, from, to) ==
    [kind |-> kind, text |-> text, from |-> from, to |-> to]

NoError == LexErr("None", <<>>, 0, 0)
NotExistTerminalSymbol == LexErr("NotExistTerminalSymbol", <<>>, 0, 0)
NotEscapeString == LexErr("NotEscapeString", <<>>, 0, 0)
InvalidChars(text, from, to) == LexErr("InvalidChars", text, from, to)

\* The error attribute of each variant: what e.to_string() renders.  The
\* source puts the argument of InvalidChars between backquotes.
ErrorMessage(e) ==
    CASE e.kind = "InvalidChars" ->
           [format |-> "Invalid chars {0}", arg |-> e.text]
      [] e.kind = "NotExistTerminalSymbol" ->
           [format |-> "Not exist terminal symbol char", arg |-> <<>>]
      [] e.kind = "NotEscapeString" ->
           [format |-> "Not escape string", arg |-> <<>>]

\* The result of one scan: Ok(token) or Err(err), and the cursor after it.
ScanOk(token, p) == [ok |-> TRUE, emit |-> TRUE, token |-> token,
                     err |-> NoError, pos |-> p]
\* Variant: a skipped character is not consumed.
ScanSkip_Stays(p) ==
    [ok |-> TRUE, emit |-> FALSE, token |-> NoToken, err |-> NoError, pos |-> p - 1]

ScanSkip(p) == [ok |-> TRUE, emit |-> FALSE, token |-> NoToken,
                err |-> NoError, pos |-> p]
ScanErr(err, p) == [ok |-> FALSE, emit |-> FALSE, token |-> NoToken,
                    err |-> err, pos |-> p]

(***************************************************************************)
(* src/src/utils.rs                                                        *)
(***************************************************************************)
\* char::is_numeric: general categories Nd, Nl and No.
IsNumeric(c) == c \in AsciiDigits \cup {VulgarHalf}

IsNumberTokenChar(c) == IsNumeric(c) \/ c \in {".", "-", "e", "E"}

(***************************************************************************)
(* src/src/lexer.rs: the scan functions.  Each takes the text and the      *)
(* cursor at its call and returns the scan result with the cursor after.   *)
(***************************************************************************)
TakeCharsWith(text, i, times) ==
    LET n == Min(times, Len(text) - i)
    IN  [chars |-> SubSeq(text, i + 1, i + n), pos |-> i + n]

\* str::parse::<f64>: Sign? ('inf' | 'infinity' | 'nan' | Number), with
\* Number ::= (Digit+ | Digit+ '.' Digit* | Digit* '.' Digit+) Exp? and
\* Exp ::= 'e' Sign? Digit+, letters in either case.
RECURSIVE DigitRun(_, _)
DigitRun(s, i) ==
    IF i <= Len(s) /\ s[i] \in AsciiDigits THEN 1 + DigitRun(s, i + 1) ELSE 0

IsSign(c) == c \in {"+", "-"}

ParsesAsF64(s) ==
    LET a == IF Len(s) >= 1 /\ IsSign(s[1]) THEN 2 ELSE 1
        body == SubSeq(s, a, Len(s))
        d1 == DigitRun(s, a)
        dot == a + d1 <= Len(s) /\ s[a + d1] = "."
        d2 == IF dot THEN DigitRun(s, a + d1 + 1) ELSE 0
        e == IF dot THEN a + d1 + 1 + d2 ELSE a + d1
        x == IF e + 1 <= Len(s) /\ IsSign(s[e + 1]) THEN e + 2 ELSE e + 1
        mantissa == d1 + d2 >= 1
        exponent ==
            \/ e > Len(s)
            \/ /\ s[e] \in {"e", "E"}
               /\ DigitRun(s, x) >= 1
               /\ x + DigitRun(s, x) > Len(s)
    IN  \/ body \in {<<"i", "n", "f">>, <<"n", "a", "n">>,
                     <<"i", "n", "f", "i", "n", "i", "t", "y">>}
        \/ mantissa /\ exponent

EscapeChars == {Quote, Backslash, "/", "b", "f", "n", "r", "t"}

RECURSIVE ScanStringLoop(_, _, _)
ScanStringLoop(text, i, value) ==
    IF i >= Len(text) THEN ScanErr(NotExistTerminalSymbol, i)
    ELSE LET c == text[i + 1] IN
      CASE c = Quote -> ScanOk(StringValue(value), i + 1)
        [] c = Backslash ->
             IF i + 1 >= Len(text) THEN ScanErr(NotExistTerminalSymbol, i + 1)
             ELSE LET c2 == text[i + 2] IN
               CASE c2 = "u" ->
                      LET hex == TakeCharsWith(text, i + 2, 4) IN
                      IF Len(hex.chars) # 4 /\ ParsesAsF64(hex.chars)
                      THEN ScanErr(NotExistTerminalSymbol, hex.pos)
                      ELSE ScanStringLoop(text, hex.pos,
                               value \o <<Backslash, "u">> \o hex.chars)
                 [] c2 \in EscapeChars ->
                      ScanStringLoop(text, i + 2, value \o <<Backslash, c2>>)
                 [] OTHER -> ScanErr(NotEscapeString, i + 2)
        [] OTHER -> ScanStringLoop(text, i + 1, Append(value, c))

\* Variant: the token stores the escapes decoded to their second character.
scan_string_token_Decoded(text, i) ==
    LET r == ScanStringLoop(text, i, <<>>) IN
    IF r.ok
    THEN ScanOk(StringValue(SelectSeq(r.token.text, LAMBDA c : c # Backslash)), r.pos)
    ELSE r

scan_string_token(text, i) == ScanStringLoop(text, i, <<>>)

RECURSIVE ScanNumberLoop(_, _, _)
\* Variant: the end of the text ends the literal like any other character.
ScanNumberLoop_EndsAtEof(text, i, value) ==
    IF i >= Len(text) THEN ScanOk(Number(value), i)
    ELSE IF IsNumberTokenChar(text[i + 1])
         THEN ScanNumberLoop(text, i + 1, Append(value, text[i + 1]))
         ELSE ScanOk(Number(value), i)

ScanNumberLoop(text, i, value) ==
    IF i >= Len(text) THEN ScanErr(NotExistTerminalSymbol, i)
    ELSE IF IsNumberTokenChar(text[i + 1])
         THEN ScanNumberLoop(text, i + 1, Append(value, text[i + 1]))
         ELSE ScanOk(Number(value), i)

\* Variant: the character the dispatch loop consumed is not stored.
scan_number_token_FirstLost(text, i, first) == ScanNumberLoop(text, i, <<>>)

scan_number_token(text, i, first) == ScanNumberLoop(text, i, <<first>>)

\* Variant: a misspelled name is reported as a missing terminal symbol.
scan_bool_token_NoText(text, i, expect_bool, index) ==
    LET taken == TakeCharsWith(text, i, IF expect_bool THEN 3 ELSE 4)
        s == <<(IF expect_bool THEN "t" ELSE "f")>> \o taken.chars
    IN  CASE s = <<"t", "r", "u", "e">> -> ScanOk(Boolean(TRUE), taken.pos)
          [] s = <<"f", "a", "l", "s", "e">> -> ScanOk(Boolean(FALSE), taken.pos)
          [] OTHER -> ScanErr(NotExistTerminalSymbol, taken.pos)

\* index is the Rust index of the 't' or 'f' the dispatch loop consumed.
scan_bool_token(text, i, expect_bool, index) ==
    LET taken == TakeCharsWith(text, i, IF expect_bool THEN 3 ELSE 4)
        s == <<(IF expect_bool THEN "t" ELSE "f")>> \o taken.chars
        end == IF expect_bool THEN index + 3 ELSE index + 4
    IN  CASE s = <<"t", "r", "u", "e">> -> ScanOk(Boolean(TRUE), taken.pos)
          [] s = <<"f", "a", "l", "s", "e">> -> ScanOk(Boolean(FALSE), taken.pos)
          [] OTHER -> ScanErr(InvalidChars(s, index, end), taken.pos)

scan_null_token(text, i, index) ==
    LET taken == TakeCharsWith(text, i, 3)
        s == <<"n">> \o taken.chars
    IN  IF s = <<"n", "u", "l", "l">>
        THEN ScanOk(Null, taken.pos)
        ELSE ScanErr(InvalidChars(s, index, index + 3), taken.pos)

RECURSIVE CommentLineLoop(_, _, _)
\* Variant: the line break that ends the comment is consumed with it.
CommentLineLoop_EatsLineBreak(text, i, value) ==
    IF i >= Len(text) THEN ScanErr(NotExistTerminalSymbol, i)
    ELSE IF text[i + 1] = LineFeed
         THEN ScanOk(CommentLine(value), i + 1)
         ELSE CommentLineLoop(text, i + 1, Append(value, text[i + 1]))

CommentLineLoop(text, i, value) ==
    IF i >= Len(text) THEN ScanErr(NotExistTerminalSymbol, i)
    ELSE IF text[i + 1] = LineFeed
         THEN ScanOk(CommentLine(value), i)
         ELSE CommentLineLoop(text, i + 1, Append(value, text[i + 1]))

RECURSIVE CommentBlockLoop(_, _, _, _, _)
CommentBlockLoop(text, i, value, asterisk_buffer, prev_asterisk) ==
    IF i >= Len(text) THEN ScanErr(NotExistTerminalSymbol, i)
    ELSE LET c == text[i + 1] IN
      CASE c = "*" ->
             CommentBlockLoop(text, i + 1, value, Append(asterisk_buffer, c), TRUE)
        [] c = "/" ->
             IF prev_asterisk
             THEN ScanOk(CommentBlock(value), i + 1)
             ELSE CommentBlockLoop(text, i + 1, value, asterisk_buffer, prev_asterisk)
        [] OTHER ->
             IF prev_asterisk
             THEN CommentBlockLoop(text, i + 1,
                      Append(value \o asterisk_buffer, c), <<>>, FALSE)
             ELSE CommentBlockLoop(text, i + 1,
                      Append(value, c), asterisk_buffer, FALSE)

scan_comment_token(text, i) ==
    IF i >= Len(text) THEN ScanErr(NotExistTerminalSymbol, i)
    ELSE LET second_slash == i
             next_char == text[i + 1]
         IN CASE next_char = "/" -> CommentLineLoop(text, i + 1, <<>>)
              [] next_char = "*" -> CommentBlockLoop(text, i + 1, <<>>, <<>>, FALSE)
              [] OTHER ->
                   ScanErr(InvalidChars(<<"/", next_char>>,
                                        second_slash, second_slash + 1), i + 1)

RECURSIVE WhitespacesLoop(_, _, _)
WhitespacesLoop(text, i, length) ==
    IF i >= Len(text) THEN ScanErr(NotExistTerminalSymbol, i)
    ELSE IF text[i + 1] = Space
         THEN WhitespacesLoop(text, i + 1, length + 1)
         ELSE ScanOk(WhiteSpaces(length), i)

\* Variant: the space the dispatch loop consumed is not counted.
scan_whitespaces_FromZero(text, i) == WhitespacesLoop(text, i, 0)

scan_whitespaces(text, i) == WhitespacesLoop(text, i, 1)

(***************************************************************************)
(* Lexer::tokenize: one iteration of the while-let loop.  Called with      *)
(* i < Len(text): next() yields (index, c) = (i, text[i + 1]) and the arm  *)
(* of c runs with the cursor at i + 1.                                     *)
(***************************************************************************)
ArmOf(c) ==
    CASE c \in {"{", "}", "[", "]"} -> "structural"
      [] c = Quote -> "string"
      [] IsNumberTokenChar(c) -> "number"
      [] c = "t" -> "true"
      [] c = "f" -> "false"
      [] c = "n" -> "null"
      [] c \in {":", ","} -> "structural"
      [] c = "/" -> "comment"
      [] c = Space -> "whitespaces"
      [] c = LineFeed -> "breakline"
      [] OTHER -> "other"

StructuralToken(c) ==
    CASE c = "{" -> OpenBrace [] c = "}" -> CloseBrace
      [] c = "[" -> OpenBracket [] c = "]" -> CloseBracket
      [] c = ":" -> Colon [] c = "," -> Comma

Dispatch(text, i) ==
    LET index == i
        c == text[i + 1]
        arm == ArmOf(c)
    IN  CASE arm = "structural" -> ScanOk(StructuralToken(c), i + 1)
          [] arm = "string" -> scan_string_token(text, i + 1)
          [] arm = "number" -> scan_number_token(text, i + 1, c)
          [] arm = "true" -> scan_bool_token(text, i + 1, TRUE, index)
          [] arm = "false" -> scan_bool_token(text, i + 1, FALSE, index)
          [] arm = "null" -> scan_null_token(text, i + 1, index)
          [] arm = "comment" -> scan_comment_token(text, i + 1)
          [] arm = "whitespaces" -> scan_whitespaces(text, i + 1)
          [] arm = "breakline" -> ScanOk(BreakLine, i + 1)
          [] OTHER -> ScanSkip(i + 1)

LexOk(toks) == [ok |-> TRUE, tokens |-> toks, err |-> NoError]
LexFail(err) == [ok |-> FALSE, tokens |-> <<>>, err |-> err]

\* The whole of tokenize, as the loop computes it.
RECURSIVE TokenizeFrom(_, _, _)
TokenizeFrom(text, i, toks) ==
    IF i >= Len(text) THEN LexOk(toks)
    ELSE LET r == Dispatch(text, i) IN
         IF ~r.ok THEN LexFail(r.err)
         ELSE TokenizeFrom(text, r.pos, IF r.emit THEN Append(toks, r.token) ELSE toks)

tokenize(text) == TokenizeFrom(text, 0, <<>>)

(***************************************************************************)
(* src/src/parser.rs: the lexer that attaches a Location to every token.   *)
(* A located token is the token plus Location(from, to); index is the Rust *)
(* index of the character next() or peek() last returned.                  *)
(***************************************************************************)
Located(token, from, to) ==
    [kind |-> token.kind, text |-> token.text, flag |-> token.flag,
     length |-> token.length, from |-> from, to |-> to]

\* What is left of a located token when its Location is dropped.
Unlocated(token) == Tok(token.kind, token.text, token.flag, token.length)

RECURSIVE span_ScanStringLoop(_, _, _, _)
span_ScanStringLoop(text, i, value, length) ==
    IF i >= Len(text) THEN ScanErr(NotExistTerminalSymbol, i)
    ELSE LET index == i
             c == text[i + 1]
         IN
      CASE c = Quote ->
             ScanOk(Located(StringValue(value), index - length, index), i + 1)
        [] c = Backslash ->
             IF i + 1 >= Len(text) THEN ScanErr(NotExistTerminalSymbol, i + 1)
             ELSE LET c2 == text[i + 2] IN
               CASE c2 = "u" ->
                      LET hex == TakeCharsWith(text, i + 2, 4) IN
                      IF Len(hex.chars) # 4 /\ ParsesAsF64(hex.chars)
                      THEN ScanErr(NotExistTerminalSymbol, hex.pos)
                      ELSE span_ScanStringLoop(text, hex.pos,
                               value \o <<Backslash, "u">> \o hex.chars,
                               length + 6)
                 [] c2 \in EscapeChars ->
                      span_ScanStringLoop(text, i + 2,
                          value \o <<Backslash, c2>>, length + 2)
                 [] OTHER -> ScanErr(NotEscapeString, i + 2)
        [] OTHER -> span_ScanStringLoop(text, i + 1, Append(value, c), length + 1)

span_scan_string_token(text, i) == span_ScanStringLoop(text, i, <<>>, 1)

RECURSIVE span_ScanNumberLoop(_, _, _, _)
span_ScanNumberLoop(text, i, value, times) ==
    IF i >= Len(text) THEN ScanErr(NotExistTerminalSymbol, i)
    ELSE LET index == i IN
         IF IsNumberTokenChar(text[i + 1])
         THEN span_ScanNumberLoop(text, i + 1, Append(value, text[i + 1]), times + 1)
         ELSE LET start == index - times IN
              ScanOk(Located(Number(value), start, index), i)

span_scan_number_token(text, i, first) == span_ScanNumberLoop(text, i, <<first>>, 0)

span_scan_bool_token(text, i, expect_bool, index) ==
    LET taken == TakeCharsWith(text, i, IF expect_bool THEN 3 ELSE 4)
        s == <<(IF expect_bool THEN "t" ELSE "f")>> \o taken.chars
        end == IF expect_bool THEN index + 3 ELSE index + 4
    IN  CASE s = <<"t", "r", "u", "e">> ->
               ScanOk(Located(Boolean(TRUE), index, end), taken.pos)
          [] s = <<"f", "a", "l", "s", "e">> ->
               ScanOk(Located(Boolean(FALSE), index, end), taken.pos)
          [] OTHER -> ScanErr(NotExistTerminalSymbol, taken.pos)

span_scan_null_token(text, i, index) ==
    LET taken == TakeCharsWith(text, i, 3)
        s == <<"n">> \o taken.chars
    IN  IF s = <<"n", "u", "l", "l">>
        THEN ScanOk(Located(Null, index, index + 3), taken.pos)
        ELSE ScanErr(InvalidChars(s, index, index + 3), taken.pos)

RECURSIVE span_CommentLineLoop(_, _, _, _)
span_CommentLineLoop(text, i, value, start) ==
    IF i >= Len(text) THEN ScanErr(NotExistTerminalSymbol, i)
    ELSE LET index == i IN
         IF text[i + 1] = LineFeed
         THEN ScanOk(Located(CommentLine(value), start, index), i)
         ELSE span_CommentLineLoop(text, i + 1, Append(value, text[i + 1]), start)

RECURSIVE span_CommentBlockLoop(_, _, _, _, _, _)
span_CommentBlockLoop(text, i, value, asterisk_buffer, prev_asterisk, start) ==
    IF i >= Len(text) THEN ScanErr(NotExistTerminalSymbol, i)
    ELSE LET index == i
             c == text[i + 1]
         IN
      CASE c = "*" ->
             span_CommentBlockLoop(text, i + 1, value,
                 Append(asterisk_buffer, c), TRUE, start)
        [] c = "/" ->
             IF prev_asterisk
             THEN ScanOk(Located(CommentBlock(value), start, index), i + 1)
             ELSE span_CommentBlockLoop(text, i + 1, value,
                      asterisk_buffer, prev_asterisk, start)
        [] OTHER ->
             IF prev_asterisk
             THEN span_CommentBlockLoop(text, i + 1,
                      Append(value \o asterisk_buffer, c), <<>>, FALSE, start)
             ELSE span_CommentBlockLoop(text, i + 1,
                      Append(value, c), asterisk_buffer, FALSE, start)

span_scan_comment_token(text, i) ==
    IF i >= Len(text) THEN ScanErr(NotExistTerminalSymbol, i)
    ELSE LET second_slash == i
             next_char == text[i + 1]
         IN CASE next_char = "/" ->
                   span_CommentLineLoop(text, i + 1, <<>>, second_slash - 1)
              [] next_char = "*" ->
                   span_CommentBlockLoop(text, i + 1, <<>>, <<>>, FALSE,
                                         second_slash - 1)
              [] OTHER ->
                   ScanErr(InvalidChars(<<"/", next_char>>,
                                        second_slash, second_slash + 1), i + 1)

RECURSIVE span_WhitespacesLoop(_, _, _)
span_WhitespacesLoop(text, i, length) ==
    IF i >= Len(text) THEN ScanErr(NotExistTerminalSymbol, i)
    ELSE LET index == i IN
         IF text[i + 1] = Space
         THEN span_WhitespacesLoop(text, i + 1, length + 1)
         ELSE ScanOk(Located(WhiteSpaces(length), index - length, index - 1), i)

span_scan_whitespaces(text, i) == span_WhitespacesLoop(text, i, 1)

\* Variant: the Location of a one-character token ends after the character.
span_OneCharToken_HalfOpen(token, index) == Located(token, index, index + 1)

\* The tokens tokenize pushes itself: Location(index, index).
span_OneCharToken(token, index) == Located(token, index, index)

(***************************************************************************)
(* src/src/node.rs: the value tree and its serializer.  Every node is a    *)
(* record of the same shape.  An Object's BTreeMap is the sequence of its  *)
(* <<key, value>> entries in ascending key order, keys unique.             *)
(***************************************************************************)
Node(type, text, flag, items, members) ==
    [type |-> type, text |-> text, flag |-> flag,
     items |-> items, members |-> members]

NodeStringValue(text) == Node("StringValue", text, FALSE, <<>>, <<>>)
NodeNumber(text) == Node("Number", text, FALSE, <<>>, <<>>)
NodeBoolean(flag) == Node("Boolean", <<>>, flag, <<>>, <<>>)
NodeNull == Node("Null", <<>>, FALSE, <<>>, <<>>)
NodeArray(items) == Node("Array", <<>>, FALSE, items, <<>>)
NodeObject(members) == Node("Object", <<>>, FALSE, <<>>, members)

\* String's Ord: lexicographic by Unicode scalar value.
RECURSIVE StrLess(_, _)
StrLess(a, b) ==
    IF b = <<>> THEN FALSE
    ELSE IF a = <<>> THEN TRUE
    ELSE IF Head(a) = Head(b) THEN StrLess(Tail(a), Tail(b))
    ELSE CodePoint(Head(a)) < CodePoint(Head(b))

\* BTreeMap::insert: replaces the value of a key already present.
RECURSIVE BTreeInsert(_, _, _)
\* Variant: the members are kept in the order they were inserted.
BTreeInsert_InOrderOfInsertion(members, key, value) ==
    IF members = <<>> THEN <<(<<key, value>>)>>
    ELSE IF Head(members)[1] = key THEN <<(<<key, value>>)>> \o Tail(members)
    ELSE <<Head(members)>> \o BTreeInsert(Tail(members), key, value)

BTreeInsert(members, key, value) ==
    IF members = <<>> THEN <<(<<key, value>>)>>
    ELSE IF Head(members)[1] = key THEN <<(<<key, value>>)>> \o Tail(members)
    ELSE IF StrLess(key, Head(members)[1]) THEN <<(<<key, value>>)>> \o members
    ELSE <<Head(members)>> \o BTreeInsert(Tail(members), key, value)

\* [String]::join(",")
RECURSIVE JoinComma(_)
\* Variant: a space follows each separating comma.
JoinComma_Spaced(strs) ==
    IF strs = <<>> THEN <<>>
    ELSE IF Len(strs) = 1 THEN strs[1]
    ELSE strs[1] \o <<",", Space>> \o JoinComma(Tail(strs))

JoinComma(strs) ==
    IF strs = <<>> THEN <<>>
    ELSE IF Len(strs) = 1 THEN strs[1]
    ELSE strs[1] \o <<",">> \o JoinComma(Tail(strs))

RECURSIVE Node_to_json_string(_)
Node_to_json_string(node) ==
    CASE node.type = "StringValue" -> <<Quote>> \o node.text \o <<Quote>>
      [] node.type = "Number" -> node.text
      [] node.type = "Boolean" ->
           IF node.flag THEN <<"t", "r", "u", "e">>
           ELSE <<"f", "a", "l", "s", "e">>
      [] node.type = "Null" -> <<"n", "u", "l", "l">>
      [] node.type = "Array" ->
           LET values == [k \in 1..Len(node.items) |->
                            Node_to_json_string(node.items[k])]
           IN  <<"[">> \o JoinComma(values) \o <<"]">>
      [] node.type = "Object" ->
           LET key_values == [k \in 1..Len(node.members) |->
                  <<Quote>> \o node.members[k][1] \o <<Quote, ":">>
                      \o Node_to_json_string(node.members[k][2])]
           IN  <<"{">> \o JoinComma(key_values) \o <<"}">>

(***************************************************************************)
(* Parser::parse (spec.md 4.2 and 6): recursive descent over the token     *)
(* sequence through a grammar cursor that skips whitespace, line breaks    *)
(* and comments.  A token cursor is the 1-based index of the next token.   *)
(***************************************************************************)
IsTrivia(t) ==
    t.kind \in {"WhiteSpaces", "BreakLine", "CommentLine", "CommentBlock"}

RECURSIVE NextGrammar(_, _)
NextGrammar(toks, i) ==
    IF i <= Len(toks) /\ IsTrivia(toks[i]) THEN NextGrammar(toks, i + 1) ELSE i

ParseOk(node, p) == [ok |-> TRUE, node |-> node, err |-> "None", pos |-> p]
ParseErr(kind, p) == [ok |-> FALSE, node |-> NodeNull, err |-> kind, pos |-> p]

RECURSIVE parse_value(_, _)
RECURSIVE parse_object(_, _, _, _)
RECURSIVE parse_array(_, _, _, _)

parse_value(toks, i) ==
    LET j == NextGrammar(toks, i) IN
    IF j > Len(toks) THEN ParseErr("UnexpectedConsumedUpToken", j)
    ELSE LET t == toks[j] IN
      CASE t.kind = "StringValue" -> ParseOk(NodeStringValue(t.text), j + 1)
        [] t.kind = "Number" -> ParseOk(NodeNumber(t.text), j + 1)
        [] t.kind = "Boolean" -> ParseOk(NodeBoolean(t.flag), j + 1)
        [] t.kind = "Null" -> ParseOk(NodeNull, j + 1)
        [] t.kind = "OpenBrace" -> parse_object(toks, j + 1, <<>>, "first")
        [] t.kind = "OpenBracket" -> parse_array(toks, j + 1, <<>>, "first")
        [] OTHER -> ParseErr("UnexpectedToken", j)

\* expect: "first" right after the brace, "comma" after a member,
\* "member" after a comma that does not close the object.
parse_object(toks, i, members, expect) ==
    LET j == NextGrammar(toks, i) IN
    IF j > Len(toks) THEN ParseErr("UnClosedToken", j)
    ELSE LET t == toks[j] IN
      CASE t.kind = "CloseBrace" /\ expect # "member" ->
             ParseOk(NodeObject(members), j + 1)
        [] t.kind = "Comma" /\ expect = "comma" ->
             LET k == NextGrammar(toks, j + 1) IN
             IF k <= Len(toks) /\ toks[k].kind = "CloseBrace"
             THEN ParseOk(NodeObject(members), k + 1)
             ELSE parse_object(toks, j + 1, members, "member")
        [] t.kind = "StringValue" /\ expect # "comma" ->
             LET c == NextGrammar(toks, j + 1) IN
             IF c > Len(toks) THEN ParseErr("UnexpectedConsumedUpToken", c)
             ELSE IF toks[c].kind # "Colon" THEN ParseErr("UnexpectedToken", c)
             ELSE LET v == parse_value(toks, c + 1) IN
                  IF ~v.ok THEN v
                  ELSE parse_object(toks, v.pos,
                           BTreeInsert(members, t.text, v.node), "comma")
        [] OTHER -> ParseErr("UnexpectedToken", j)

\* Variant: a comma must be followed by another element.
parse_array_CommaNeedsElement(toks, i, items, expect) ==
    LET j == NextGrammar(toks, i) IN
    IF j > Len(toks) THEN ParseErr("UnClosedToken", j)
    ELSE LET t == toks[j] IN
      CASE t.kind = "CloseBracket" /\ expect # "member" ->
             ParseOk(NodeArray(items), j + 1)
        [] t.kind = "Comma" /\ expect = "comma" ->
             parse_array(toks, j + 1, items, "member")
        [] t.kind \notin {"CloseBracket", "Comma"} /\ expect # "comma" ->
             LET v == parse_value(toks, j) IN
             IF ~v.ok THEN v
             ELSE parse_array(toks, v.pos, Append(items, v.node), "comma")
        [] OTHER -> ParseErr("UnexpectedToken", j)

parse_array(toks, i, items, expect) ==
    LET j == NextGrammar(toks, i) IN
    IF j > Len(toks) THEN ParseErr("UnClosedToken", j)
    ELSE LET t == toks[j] IN
      CASE t.kind = "CloseBracket" /\ expect # "member" ->
             ParseOk(NodeArray(items), j + 1)
        [] t.kind = "Comma" /\ expect = "comma" ->
             LET k == NextGrammar(toks, j + 1) IN
             IF k <= Len(toks) /\ toks[k].kind = "CloseBracket"
             THEN ParseOk(NodeArray(items), k + 1)
             ELSE parse_array(toks, j + 1, items, "member")
        [] t.kind \notin {"CloseBracket", "Comma"} /\ expect # "comma" ->
             LET v == parse_value(toks, j) IN
             IF ~v.ok THEN v
             ELSE parse_array(toks, v.pos, Append(items, v.node), "comma")
        [] OTHER -> ParseErr("UnexpectedToken", j)

parse(toks) ==
    IF NextGrammar(toks, 1) > Len(toks) THEN ParseErr("NotFoundToken", 1)
    ELSE LET v == parse_value(toks, 1) IN
         IF ~v.ok THEN v
         ELSE IF NextGrammar(toks, v.pos) <= Len(toks)
              THEN ParseErr("UnexpectedToken", NextGrammar(toks, v.pos))
              ELSE v

(***************************************************************************)
(* src/src/lib.rs: to_json_string, as a function of the whole text.        *)
(***************************************************************************)
Ok(text) == [ok |-> TRUE, text |-> text, message |-> [format |-> "", arg |-> <<>>]]
Err(message) == [ok |-> FALSE, text |-> <<>>, message |-> message]

ParseErrorMessage(kind) == [format |-> kind, arg |-> <<>>]

to_json_string(data) ==
    LET token == tokenize(data) IN
    IF ~token.ok THEN Err(ErrorMessage(token.err))
    ELSE LET res == parse(token.tokens) IN
         IF ~res.ok THEN Err(ParseErrorMessage(res.err))
         ELSE Ok(Node_to_json_string(res.node))

(***************************************************************************)
(* The texts to_json_string is called with.  Any text is a possible        *)
(* argument; each family below enumerates the texts of one lexical shape   *)
(* up to its bound.                                                        *)
(***************************************************************************)
FlattenAll(S, n) == {Flatten(ss) : ss \in SeqsUpTo(S, n)}

\* Every text over the alphabet.
CharInputs == SeqsUpTo(Alphabet, MaxLen)

\* Runs of number characters and what may end them.
NumberProbe == {"0", "1", ".", "-", "e", "E", VulgarHalf, ",", LineFeed, "a"}
NumberInputs == SeqsUpTo(NumberProbe, MaxNumLen)

\* The literal names, their prefixes and what may follow them.
KeywordWords ==
    {<<"t", "r", "u", "e">>, <<"f", "a", "l", "s", "e">>, <<"n", "u", "l", "l">>,
     <<"t", "r", "u">>, <<"f", "a", "l", "s">>, <<"n", "u", "l">>,
     <<"t">>, <<"f">>, <<"n">>, <<"a">>, <<",">>, <<"/">>, <<"e">>}
KeywordInputs == FlattenAll(KeywordWords, MaxWords)

\* An opening quote, a body of plain characters, quotes and escapes, and
\* the closing quote or the end of the text.
TwoCharEscapes == {<<Backslash, c>> : c \in EscapeChars}
UnicodeEscapes ==
    {<<Backslash, "u", "d", "8", "3", "d">>, <<Backslash, "u", "d", "e", "0", "0">>}
StringUnits ==
    {<<"a">>, <<Quote>>, <<Backslash>>, <<Backslash, "a">>, <<Backslash, "u">>,
     <<Backslash, "u", "z", "z", "z", "z">>}
        \cup TwoCharEscapes \cup UnicodeEscapes
StringInputs ==
    {<<Quote>> \o body \o closing :
        body \in FlattenAll(StringUnits, MaxUnits), closing \in {<<>>, <<Quote>>}}

\* One scalar literal between runs of trivia.
ScalarLiterals ==
    {<<Quote, "a", Quote>>, <<"1", ".", "0">>, <<"t", "r", "u", "e">>,
     <<"f", "a", "l", "s", "e">>, <<"n", "u", "l", "l">>}
TriviaItems ==
    {<<Space>>, <<LineFeed>>, <<"/", "/", "a", LineFeed>>, <<"/", "*", "a", "*", "/">>}
LeadingTrivia == FlattenAll(TriviaItems, MaxTrivia)
TrailingTrivia ==
    {items \o tail_comment :
        items \in LeadingTrivia, tail_comment \in {<<>>, <<"/", "/", "a">>}}
ScalarDocs ==
    {[text |-> pre \o scalar \o post, scalar |-> scalar] :
        pre \in LeadingTrivia, scalar \in ScalarLiterals, post \in TrailingTrivia}
ScalarDocInputs == {d.text : d \in ScalarDocs}

\* A comment opener and what may follow it.
CommentProbe == {"a", "*", "/", LineFeed}
CommentInputs ==
    {<<"/", opener>> \o body :
        opener \in {"/", "*"}, body \in SeqsUpTo(CommentProbe, MaxCommentLen)}

\* Runs of spaces, tabs and what may end them.
SpaceProbe == {Space, Tab, "a", ",", LineFeed}
SpaceInputs == SeqsUpTo(SpaceProbe, MaxSpaceLen)

\* Arrays and objects of up to MaxItems elements, each a scalar or a small
\* array or object, with or without a comma before the closing bracket.
RECURSIVE Separated(_)
Separated(texts) ==
    IF texts = <<>> THEN <<>>
    ELSE IF Len(texts) = 1 THEN texts[1]
    ELSE texts[1] \o <<",">> \o Separated(Tail(texts))

DocScalars ==
    {<<Quote, "a", Quote>>, <<"1">>, <<"t", "r", "u", "e">>,
     <<"f", "a", "l", "s", "e">>, <<"n", "u", "l", "l">>}
DocValues ==
    DocScalars \cup {<<"[", "]">>, <<"{", "}">>, <<"[", "1", "]">>,
                     <<"{", Quote, "a", Quote, ":", "1", "}">>}
DocKeys == {<<"a">>, <<"b">>}
DocMembers ==
    {[key |-> k, text |-> <<Quote>> \o k \o <<Quote, ":">> \o v] :
        k \in DocKeys, v \in DocValues}
ClosingCommas == {<<>>, <<",">>, <<",", Space>>}

\* text: the document; plain: the same without the closing comma and the
\* trivia after it; keys: the member names in source order.
ArrayDocs ==
    {[text |-> <<"[">> \o Separated(es) \o cc \o <<"]">>,
      plain |-> <<"[">> \o Separated(es) \o <<"]">>,
      keys |-> <<>>] :
        es \in SeqsUpTo(DocValues, MaxItems), cc \in ClosingCommas}
ObjectDocs ==
    {[text |-> <<"{">> \o Separated([k \in DOMAIN ms |-> ms[k].text]) \o cc \o <<"}">>,
      plain |-> <<"{">> \o Separated([k \in DOMAIN ms |-> ms[k].text]) \o <<"}">>,
      keys |-> [k \in DOMAIN ms |-> ms[k].key]] :
        ms \in SeqsUpTo(DocMembers, MaxItems), cc \in ClosingCommas}
Docs == ArrayDocs \cup ObjectDocs
DocInputs == {d.text : d \in Docs}

Inputs ==
    CharInputs \cup NumberInputs \cup KeywordInputs \cup StringInputs
        \cup ScalarDocInputs \cup CommentInputs \cup SpaceInputs
        \cup DocInputs

(***************************************************************************)
(* The run of one call to_json_string(input).  pc is the position in       *)
(* lib.rs: "tokenize" while Lexer::tokenize loops, "lexed" when it has     *)
(* returned, "parsed" when Parser::parse has returned, "done" when         *)
(* to_json_string has returned.  last records the (index, c) pair of the   *)
(* latest loop iteration, the length of the token vector when it began    *)
(* and whether its arm succeeded.  tokens is the loop's vector; after a    *)
(* failed scan it keeps what had been collected.                           *)
(***************************************************************************)
LexNotRun == LexFail(NoError)
ParseNotRun == ParseErr("None", 0)
NotReturned == Err([format |-> "None", arg |-> <<>>])

Init ==
    /\ input \in Inputs
    /\ pos = 0
    /\ tokens = <<>>
    /\ last = [arm |-> "none", index |-> 0, collected |-> 0, ok |-> TRUE]
    /\ pc = "tokenize"
    /\ lexResult = LexNotRun
    /\ parseResult = ParseNotRun
    /\ result = NotReturned

\* The head of the loop: next() yields (index, c) = (pos, input[pos + 1]).
Yields(arm) ==
    /\ pc = "tokenize"
    /\ pos < Len(input)
    /\ ArmOf(input[pos + 1]) = arm

\* The rest of the iteration: r is what the arm evaluated to.  Ok pushes
\* the token, if any, and loops; Err leaves tokenize through the ? operator.
Iterate(arm, r) ==
    /\ last' = [arm |-> arm, index |-> pos, collected |-> Len(tokens),
                ok |-> r.ok]
    /\ pos' = r.pos
    /\ tokens' = IF r.emit THEN Append(tokens, r.token) ELSE tokens
    /\ IF r.ok
       THEN pc' = "tokenize" /\ UNCHANGED lexResult
       ELSE pc' = "lexed" /\ lexResult' = LexFail(r.err)
    /\ UNCHANGED <<input, parseResult, result>>

PushStructural ==
    /\ Yields("structural")
    /\ Iterate("structural", ScanOk(StructuralToken(input[pos + 1]), pos + 1))

ScanString ==
    /\ Yields("string")
    /\ Iterate("string", scan_string_token(input, pos + 1))

ScanNumber ==
    /\ Yields("number")
    /\ Iterate("number", scan_number_token(input, pos + 1, input[pos + 1]))

ScanTrue ==
    /\ Yields("true")
    /\ Iterate("true", scan_bool_token(input, pos + 1, TRUE, pos))

ScanFalse ==
    /\ Yields("false")
    /\ Iterate("false", scan_bool_token(input, pos + 1, FALSE, pos))

ScanNull ==
    /\ Yields("null")
    /\ Iterate("null", scan_null_token(input, pos + 1, pos))

ScanComment ==
    /\ Yields("comment")
    /\ Iterate("comment", scan_comment_token(input, pos + 1))

ScanWhitespaces ==
    /\ Yields("whitespaces")
    /\ Iterate("whitespaces", scan_whitespaces(input, pos + 1))

PushBreakLine ==
    /\ Yields("breakline")
    /\ Iterate("breakline", ScanOk(BreakLine, pos + 1))

\* Variant: a character without a rule is an error.
SkipOther_Rejects ==
    /\ Yields("other")
    /\ Iterate("other",
               ScanErr(InvalidChars(<<input[pos + 1]>>, pos, pos + 1), pos + 1))

SkipOther ==
    /\ Yields("other")
    /\ Iterate("other", ScanSkip(pos + 1))

TokenizeReturn ==
    /\ pc = "tokenize"
    /\ pos >= Len(input)
    /\ lexResult' = LexOk(tokens)
    /\ pc' = "lexed"
    /\ UNCHANGED <<input, pos, tokens, last, parseResult, result>>

\* Variant: the lexer's error is swallowed and the parser runs on what the
\* loop had collected.
LexErrorReturn_ParsesAnyway ==
    /\ pc = "lexed"
    /\ ~lexResult.ok
    /\ parseResult' = parse(tokens)
    /\ pc' = "parsed"
    /\ UNCHANGED <<input, pos, tokens, last, lexResult, result>>

LexErrorReturn ==
    /\ pc = "lexed"
    /\ ~lexResult.ok
    /\ result' = Err(ErrorMessage(lexResult.err))
    /\ pc' = "done"
    /\ UNCHANGED <<input, pos, tokens, last, lexResult, parseResult>>

Parse ==
    /\ pc = "lexed"
    /\ lexResult.ok
    /\ parseResult' = parse(lexResult.tokens)
    /\ pc' = "parsed"
    /\ UNCHANGED <<input, pos, tokens, last, lexResult, result>>

ParseErrorReturn ==
    /\ pc = "parsed"
    /\ ~parseResult.ok
    /\ result' = Err(ParseErrorMessage(parseResult.err))
    /\ pc' = "done"
    /\ UNCHANGED <<input, pos, tokens, last, lexResult, parseResult>>

Serialize ==
    /\ pc = "parsed"
    /\ parseResult.ok
    /\ result' = Ok(Node_to_json_string(parseResult.node))
    /\ pc' = "done"
    /\ UNCHANGED <<input, pos, tokens, last, lexResult, parseResult>>

Next ==
    \/ PushStructural
    \/ ScanString
    \/ ScanNumber
    \/ ScanTrue
    \/ ScanFalse
    \/ ScanNull
    \/ ScanComment
    \/ ScanWhitespaces
    \/ PushBreakLine
    \/ SkipOther
    \/ TokenizeReturn
    \/ LexErrorReturn
    \/ Parse
    \/ ParseErrorReturn
    \/ Serialize

Spec == Init /\ [][Next]_vars

\* The loop of tokenize: its next iteration, or its return at the end of
\* the text.  Nothing it does waits for anything, so it keeps running.
TokenizeLoop ==
    \/ PushStructural \/ ScanString \/ ScanNumber \/ ScanTrue \/ ScanFalse
    \/ ScanNull \/ ScanComment \/ ScanWhitespaces \/ PushBreakLine
    \/ SkipOther \/ TokenizeReturn

\* The texts the pass is followed on to its end: those of every family, the
\* string literals and the arrays one unit shorter.
PassInputs ==
    CharInputs \cup NumberInputs \cup KeywordInputs \cup ScalarDocInputs
        \cup CommentInputs \cup SpaceInputs
        \cup {<<Quote>> \o body \o closing :
                 body \in FlattenAll(StringUnits, MaxUnits - 1),
                 closing \in {<<>>, <<Quote>>}}
        \cup {<<"[">> \o Separated(es) \o cc \o <<"]">> :
                 es \in SeqsUpTo(DocValues, MaxItems - 1), cc \in ClosingCommas}

FairInit ==
    /\ input \in PassInputs
    /\ pos = 0
    /\ tokens = <<>>
    /\ last = [arm |-> "none", index |-> 0, collected |-> 0, ok |-> TRUE]
    /\ pc = "tokenize"
    /\ lexResult = LexNotRun
    /\ parseResult = ParseNotRun
    /\ result = NotReturned

FairSpec == FairInit /\ [][Next]_vars /\ WF_vars(TokenizeLoop)

(***************************************************************************)
(* The run of one call of parser.rs's Lexer::tokenize on input, as its     *)
(* tests make it: the same loop, pushing located tokens; the call returns  *)
(* at pc = "lexed" with lexResult.                                         *)
(***************************************************************************)
SpanPushStructural ==
    /\ Yields("structural")
    /\ Iterate("structural",
               ScanOk(span_OneCharToken(StructuralToken(input[pos + 1]), pos),
                      pos + 1))

SpanScanString ==
    /\ Yields("string")
    /\ Iterate("string", span_scan_string_token(input, pos + 1))

SpanScanNumber ==
    /\ Yields("number")
    /\ Iterate("number", span_scan_number_token(input, pos + 1, input[pos + 1]))

SpanScanTrue ==
    /\ Yields("true")
    /\ Iterate("true", span_scan_bool_token(input, pos + 1, TRUE, pos))

SpanScanFalse ==
    /\ Yields("false")
    /\ Iterate("false", span_scan_bool_token(input, pos + 1, FALSE, pos))

SpanScanNull ==
    /\ Yields("null")
    /\ Iterate("null", span_scan_null_token(input, pos + 1, pos))

SpanScanComment ==
    /\ Yields("comment")
    /\ Iterate("comment", span_scan_comment_token(input, pos + 1))

SpanScanWhitespaces ==
    /\ Yields("whitespaces")
    /\ Iterate("whitespaces", span_scan_whitespaces(input, pos + 1))

SpanPushBreakLine ==
    /\ Yields("breakline")
    /\ Iterate("breakline", ScanOk(span_OneCharToken(BreakLine, pos), pos + 1))

SpanSkipOther ==
    /\ Yields("other")
    /\ Iterate("other", ScanSkip(pos + 1))

SpanTokenizeReturn ==
    /\ pc = "tokenize"
    /\ pos >= Len(input)
    /\ lexResult' = LexOk(tokens)
    /\ pc' = "lexed"
    /\ UNCHANGED <<input, pos, tokens, last, parseResult, result>>

SpanNext ==
    \/ SpanPushStructural \/ SpanScanString \/ SpanScanNumber \/ SpanScanTrue
    \/ SpanScanFalse \/ SpanScanNull \/ SpanScanComment \/ SpanScanWhitespaces
    \/ SpanPushBreakLine \/ SpanSkipOther \/ SpanTokenizeReturn

SpanSpec == Init /\ [][SpanNext]_vars

\* The run agrees with the function: what to_json_string returns is
\* to_json_string(input).
RunIsFunction == pc = "done" => result = to_json_string(input)

(***************************************************************************)
(* Properties.                                                             *)
(***************************************************************************)
Returned == pc = "done"
LastToken == tokens[Len(tokens)]
\* The 1-based position in input of the character the latest iteration
\* dispatched on.
LastAt == last.index + 1

\* C1: every text made of exactly one scalar literal between runs of
\* spaces, line breaks and comments is converted successfully, and the
\* result is that scalar; also when the literal, a run of spaces or a line
\* comment ends the text.
C1_ScalarDocumentSucceeds ==
    Returned =>
        \A d \in ScalarDocs : d.text = input => result = Ok(d.scalar)

\* C2: the pipeline is idempotent, and compact comment-free texts convert:
\* when to_json_string(input) is Ok(y), to_json_string(y) is Ok(y); and a
\* bare scalar literal, a top-level number included, converts successfully.
C2_Idempotent ==
    Returned =>
        /\ result.ok => to_json_string(result.text) = Ok(result.text)
        /\ input \in ScalarLiterals => result.ok

\* C3: a failed scan is terminal and all-or-nothing: tokenize returns the
\* error and no token, to_json_string returns Err with that error's
\* message and the parser never runs; Ok is returned only when tokenize
\* and parse both succeeded.
C3_FailureIsAllOrNothing ==
    /\ ~last.ok =>
          /\ pc # "tokenize"
          /\ ~lexResult.ok
          /\ lexResult.tokens = <<>>
          /\ lexResult.err.kind \in
                 {"InvalidChars", "NotExistTerminalSymbol", "NotEscapeString"}
    /\ Returned /\ ~lexResult.ok =>
          /\ ~last.ok
          /\ result = Err(ErrorMessage(lexResult.err))
          /\ parseResult = ParseNotRun
    /\ Returned /\ result.ok =>
          /\ lexResult.ok
          /\ parseResult.ok
          /\ lexResult.tokens = tokens

\* C3 witness: a scan failed after tokens had been collected and the call
\* returned the error.
C3_Witness ==
    /\ Returned
    /\ ~last.ok
    /\ Len(tokens) > 0
    /\ ~result.ok
    /\ lexResult.err.kind = "InvalidChars"

\* C4: a Number token stores exactly the source characters of its literal,
\* from the character that started the scan up to the cursor, and a
\* number value is serialized as that stored text, unchanged.
C4_NumberTextIsVerbatim ==
    /\ last.arm = "number" /\ last.ok =>
          /\ Len(tokens) = last.collected + 1
          /\ LastToken = Number(SubSeq(input, LastAt, pos))
    /\ Returned /\ result.ok /\ parseResult.node.type = "Number" =>
          /\ result.text = parseResult.node.text
          /\ \E k \in 1..Len(tokens) : tokens[k] = Number(result.text)

\* C4 witness: the literal 1.0 came out as 1.0, trailing zero kept.
C4_Witness ==
    /\ Returned
    /\ result = Ok(<<"1", ".", "0">>)
    /\ SubSeq(input, 1, 4) = <<"1", ".", "0", LineFeed>>

\* The string literals whose units are plain characters and recognised
\* escapes: the eight two-character escapes and \u with four hex digits.
RecognisedUnits == {<<"a">>} \cup TwoCharEscapes \cup UnicodeEscapes
WellFormedStringLiterals ==
    {<<Quote>> \o body \o <<Quote>> : body \in FlattenAll(RecognisedUnits, MaxUnits)}

\* C5: for a string literal whose escapes are all recognised, the
\* StringValue token stores the characters between the two quotes
\* unchanged (no escape decoded, no surrogate pair merged), and the
\* serialized value is the literal itself, quotes included.
C5_StringTextIsVerbatim ==
    input \in WellFormedStringLiterals =>
        /\ last.arm = "string" =>
              /\ last.ok
              /\ tokens = <<StringValue(SubSeq(input, 2, Len(input) - 1))>>
              /\ pos = Len(input)
        /\ Returned => result = Ok(input)

\* C5 witness: the surrogate pair of U+1F600 went through unchanged.
C5_Witness ==
    /\ Returned
    /\ input = <<Quote, Backslash, "u", "d", "8", "3", "d",
                 Backslash, "u", "d", "e", "0", "0", Quote>>
    /\ result.ok
    /\ Len(tokens[1].text) = 12

\* The cursor just after the first double quote at or after cursor i that
\* no backslash escapes, Len(text) + 1 if there is none.
RECURSIVE ClosingQuote(_, _)
ClosingQuote(text, i) ==
    IF i >= Len(text) THEN Len(text) + 1
    ELSE IF text[i + 1] = Quote THEN i + 1
    ELSE IF text[i + 1] = Backslash THEN ClosingQuote(text, i + 2)
    ELSE ClosingQuote(text, i + 1)

\* C6: a string token ends at the first double quote after the opening
\* quote that no backslash escapes, also when that quote is among the four
\* characters after a \u; without such a quote the scan fails with
\* NotExistTerminalSymbol (NotEscapeString when an unrecognised escape
\* comes first).
C6_StringEndsAtFirstUnescapedQuote ==
    last.arm = "string" =>
        LET close == ClosingQuote(input, LastAt) IN
        /\ last.ok => pos = close
        /\ close > Len(input) =>
              /\ ~last.ok
              /\ lexResult.err.kind \in {"NotExistTerminalSymbol", "NotEscapeString"}

HexDigits == AsciiDigits \cup {"a", "b", "d", "e", "f", "E"}

\* What the literal opened before cursor i is, read by the escape rules:
\* "closed", "open" (the text ends first), "bad_escape" (a backslash before
\* a character that is no escape) or "bad_unicode" (\u without four hex
\* digits after it).
RECURSIVE StringShape(_, _)
StringShape(text, i) ==
    IF i >= Len(text) THEN "open"
    ELSE LET c == text[i + 1] IN
      CASE c = Quote -> "closed"
        [] c = Backslash ->
             IF i + 1 >= Len(text) THEN "open"
             ELSE LET c2 == text[i + 2] IN
               CASE c2 \in EscapeChars -> StringShape(text, i + 2)
                 [] c2 = "u" ->
                      IF /\ i + 6 <= Len(text)
                         /\ \A k \in (i + 3)..(i + 6) : text[k] \in HexDigits
                      THEN StringShape(text, i + 6)
                      ELSE "bad_unicode"
                 [] OTHER -> "bad_escape"
        [] OTHER -> StringShape(text, i + 1)

\* C7: a string token is accepted only if every backslash in it starts one
\* of the eight two-character escapes or \u with exactly four hex digits;
\* a backslash before any other character fails with NotEscapeString, and
\* \u before four characters that are not all hex digits is not accepted.
C7_OnlyRecognisedEscapes ==
    last.arm = "string" =>
        LET shape == StringShape(input, LastAt) IN
        /\ last.ok => shape = "closed"
        /\ shape = "bad_escape" =>
              ~last.ok /\ lexResult.err.kind = "NotEscapeString"
        /\ shape = "bad_unicode" => ~last.ok

JsonNumberChars == {"0", "1", "3", "8", ".", "-", "e", "E"}

\* The cursor after the maximal run of JSON number characters from cursor i.
RECURSIVE NumberRunEnd(_, _)
NumberRunEnd(text, i) ==
    IF i < Len(text) /\ text[i + 1] \in JsonNumberChars
    THEN NumberRunEnd(text, i + 1)
    ELSE i

\* C8: the dispatch loop scans a number on, and only on, a digit 0-9, '.',
\* '-', 'e' or 'E'; the Number token is the maximal run of such characters
\* from there, whatever its shape; the character ending the run is not
\* consumed.
C8_NumberIsMaximalRun ==
    /\ last.arm # "none" =>
          (last.arm = "number" <=> input[LastAt] \in JsonNumberChars)
    /\ last.arm = "number" /\ last.ok =>
          /\ pos = NumberRunEnd(input, last.index)
          /\ pos < Len(input)
          /\ LastToken = Number(SubSeq(input, LastAt, pos))

\* C9: a number literal, a run of spaces or a line comment that extends to
\* the last character of the text makes tokenize fail with
\* NotExistTerminalSymbol, and no token is emitted for it.
C9_ScanFailsAtEndOfInput ==
    LET rest == {input[k] : k \in (LastAt + 1)..Len(input)}
        to_the_end ==
            \/ last.arm = "number" /\ \A c \in rest : IsNumberTokenChar(c)
            \/ last.arm = "whitespaces" /\ rest \subseteq {Space}
            \/ /\ last.arm = "comment"
               /\ LastAt < Len(input)
               /\ input[LastAt + 1] = "/"
               /\ LineFeed \notin rest
    IN  to_the_end =>
            /\ ~last.ok
            /\ pc # "tokenize"
            /\ lexResult = LexFail(NotExistTerminalSymbol)
            /\ Len(tokens) = last.collected
            /\ Returned => result = Err(ErrorMessage(NotExistTerminalSymbol))

\* C9 witness: a number literal at the very end of the text, after a comma
\* that had been tokenized, failed the call.
C9_Witness ==
    /\ Returned
    /\ last.arm = "number"
    /\ input[Len(input)] = "1"
    /\ tokens = <<Comma>>
    /\ result.message.format = "Not exist terminal symbol char"

\* C10: on 't', 'f' and 'n' the lexer consumes the next 3, 4 and 3
\* characters, fewer only when the text ends, and emits Boolean(true),
\* Boolean(false) or Null exactly when the characters read spell true,
\* false or null; otherwise it fails with InvalidChars carrying the
\* characters read, as it does with "/" and the character after it when
\* that character is neither '/' nor '*'.
C10_LiteralNamesAreSpelledOut ==
    LET more == CASE last.arm = "true" -> 3
                  [] last.arm = "false" -> 4
                  [] OTHER -> 3
        name == CASE last.arm = "true" -> <<"t", "r", "u", "e">>
                  [] last.arm = "false" -> <<"f", "a", "l", "s", "e">>
                  [] OTHER -> <<"n", "u", "l", "l">>
        token == CASE last.arm = "true" -> Boolean(TRUE)
                   [] last.arm = "false" -> Boolean(FALSE)
                   [] OTHER -> Null
        read == SubSeq(input, LastAt, pos)
    IN  /\ last.arm \in {"true", "false", "null"} =>
              /\ pos = Min(LastAt + more, Len(input))
              /\ last.ok <=> read = name
              /\ last.ok =>
                    Len(tokens) = last.collected + 1 /\ LastToken = token
              /\ ~last.ok =>
                    /\ lexResult.err.kind = "InvalidChars"
                    /\ lexResult.err.text = read
                    /\ Len(tokens) = last.collected
        /\ /\ last.arm = "comment"
           /\ LastAt < Len(input)
           /\ input[LastAt + 1] \notin {"/", "*"}
           => /\ ~last.ok
              /\ lexResult.err.kind = "InvalidChars"
              /\ lexResult.err.text = <<"/", input[LastAt + 1]>>

\* C10 witness: t, r, u and one wrong character were read and reported.
C10_Witness ==
    /\ Returned
    /\ last.arm = "true"
    /\ ~last.ok
    /\ lexResult.err.text = <<"t", "r", "u", "a">>
    /\ result.message.arg = <<"t", "r", "u", "a">>

\* The cursor just after the first "*/" at or after cursor i,
\* Len(text) + 1 if there is none.
RECURSIVE BlockCommentEnd(_, _)
BlockCommentEnd(text, i) ==
    IF i + 2 > Len(text) THEN Len(text) + 1
    ELSE IF text[i + 1] = "*" /\ text[i + 2] = "/" THEN i + 2
    ELSE BlockCommentEnd(text, i + 1)

\* C11: a block comment ends at the first "*/" after its "/*" and the
\* CommentBlock token stores exactly the characters between the two,
\* asterisks and slashes of the body included; an unterminated block
\* comment fails with NotExistTerminalSymbol.
C11_BlockCommentTextIsVerbatim ==
    last.arm = "comment" /\ LastAt < Len(input) /\ input[LastAt + 1] = "*" =>
        LET body == last.index + 2
            end == BlockCommentEnd(input, body)
        IN  IF end <= Len(input)
            THEN /\ last.ok
                 /\ pos = end
                 /\ LastToken = CommentBlock(SubSeq(input, body + 1, end - 2))
            ELSE /\ ~last.ok
                 /\ lexResult.err = NotExistTerminalSymbol

\* The positions of the line breaks of text after position from.
LineBreaksAfter(text, from) == {k \in (from + 1)..Len(text) : text[k] = LineFeed}
FirstLineBreakAfter(text, from) ==
    CHOOSE k \in LineBreaksAfter(text, from) :
        \A j \in LineBreaksAfter(text, from) : k <= j

\* C12: a line comment that is followed by a line break yields a
\* CommentLine token whose text is exactly the characters between "//" and
\* the line break; the line break is not consumed by the comment: it is the
\* next character dispatched and the token right after the CommentLine is
\* the BreakLine.
C12_LineCommentStopsBeforeLineBreak ==
    /\ last.arm = "comment" /\ LastAt < Len(input) /\ input[LastAt + 1] = "/"
         /\ LineBreaksAfter(input, LastAt + 1) # {} =>
            LET lf == FirstLineBreakAfter(input, LastAt + 1) IN
            /\ last.ok
            /\ Len(tokens) = last.collected + 1
            /\ LastToken = CommentLine(SubSeq(input, LastAt + 2, lf - 1))
            /\ pos = lf - 1
            /\ input[pos + 1] = LineFeed
    /\ \A k \in 1..Len(tokens) :
            tokens[k].kind = "CommentLine" =>
                IF k < Len(tokens) THEN tokens[k + 1] = BreakLine
                ELSE pc = "tokenize" /\ last.arm = "comment"

C12_Witness ==
    /\ input = <<"/", "/", "a", "/", LineFeed, "a">>
    /\ tokens = <<CommentLine(<<"a", "/">>), BreakLine>>
    /\ pos = 5

\* The number of consecutive spaces of text from position from on.
RECURSIVE SpaceRun(_, _)
SpaceRun(text, from) ==
    IF from <= Len(text) /\ text[from] = Space
    THEN 1 + SpaceRun(text, from + 1) ELSE 0

\* C13: a run of k >= 1 consecutive spaces that is followed by some other
\* character yields exactly one WhiteSpaces token of length k; only the
\* space starts or extends a run (a tab, a line break do not); the character
\* ending the run is not consumed: it is the next one dispatched.
C13_SpaceRunIsOneToken ==
    /\ last.arm = "whitespaces" <=> (last.arm # "none" /\ input[LastAt] = Space)
    /\ last.arm = "whitespaces" /\ LastAt + SpaceRun(input, LastAt) <= Len(input) =>
            LET k == SpaceRun(input, LastAt) IN
            /\ k >= 1
            /\ last.ok
            /\ Len(tokens) = last.collected + 1
            /\ LastToken = WhiteSpaces(k)
            /\ pos = last.index + k
            /\ input[pos + 1] # Space
            /\ pc = "tokenize"

C13_Witness ==
    /\ input = <<Tab, Space, Space, Tab>>
    /\ tokens = <<WhiteSpaces(2)>>
    /\ pos = 3

\* Characters for which tokenize has no rule: the tab, letters that start
\* no literal, and punctuation that is no token.
UnruledChars == {Tab, Backslash, "*", "a", "b", "d", "l", "r", "s", "u", "z"}

\* C14: a character the dispatch loop meets that matches no rule is consumed
\* without a token and without an error, and a text made only of such
\* characters tokenizes to the empty token sequence.
C14_UnruledCharIsSkipped ==
    /\ last.arm # "none" /\ input[LastAt] \in UnruledChars =>
            /\ last.arm = "other"
            /\ last.ok
            /\ pos = last.index + 1
            /\ Len(tokens) = last.collected
    /\ pc # "tokenize" /\ (\A k \in 1..Len(input) : input[k] \in UnruledChars) =>
            lexResult = LexOk(<<>>)

C14_Witness ==
    /\ input = <<Tab, "a", Tab>>
    /\ pc = "lexed"
    /\ pos = 3
    /\ lexResult = LexOk(<<>>)

\* The reference rendering of a value: compact JSON text.
RECURSIVE Rendering(_)
Rendering(node) ==
    LET Listed(texts) ==
            IF texts = <<>> THEN <<>>
            ELSE texts[1] \o Flatten([k \in 1..(Len(texts) - 1) |->
                                         <<",">> \o texts[k + 1]])
    IN
    IF node.type = "Array"
    THEN <<"[">> \o Listed([k \in DOMAIN node.items |-> Rendering(node.items[k])])
             \o <<"]">>
    ELSE IF node.type = "Object"
    THEN <<"{">> \o Listed([k \in DOMAIN node.members |->
                     <<Quote>> \o node.members[k][1] \o <<Quote>> \o <<":">>
                         \o Rendering(node.members[k][2])])
             \o <<"}">>
    ELSE IF node.type = "StringValue" THEN <<Quote>> \o node.text \o <<Quote>>
    ELSE IF node.type = "Number" THEN node.text
    ELSE IF node.type = "Null" THEN <<"n", "u", "l", "l">>
    ELSE IF node.flag THEN <<"t", "r", "u", "e">>
    ELSE <<"f", "a", "l", "s", "e">>

\* The documents that are already compact: no closing comma and the member
\* names in strictly ascending order.
CompactDocTexts ==
    {d.plain : d \in {e \in Docs :
        \A k \in 1..(Len(e.keys) - 1) : StrLess(e.keys[k], e.keys[k + 1])}}

\* C15: serializing a value never fails and gives the reference rendering:
\* quoted string text as stored, number text, true/false, null, elements
\* and "key":value members joined by commas between brackets, with no
\* whitespace added; so a compact document is returned unchanged.
C15_SerializerIsCompactRendering ==
    /\ pc \in {"parsed", "done"} /\ parseResult.ok =>
            Node_to_json_string(parseResult.node) = Rendering(parseResult.node)
    /\ Returned /\ parseResult.ok =>
            result = Ok(Rendering(parseResult.node))
    /\ Returned /\ input \in CompactDocTexts => result = Ok(input)

C15_Witness ==
    /\ Returned
    /\ input = <<"{", Quote, "b", Quote, ":", "[", "1", "]", ",",
                 Quote, "a", Quote, ":", "n", "u", "l", "l", "}">>
    /\ result = Ok(<<"{", Quote, "a", Quote, ":", "n", "u", "l", "l", ",",
                     Quote, "b", Quote, ":", "[", "1", "]", "}">>)

\* The position of the comma that stands right before the closing bracket
\* of an array or object text, spaces allowed in between; 0 if none.
RECURSIVE CommaBefore(_, _)
CommaBefore(text, k) ==
    IF k < 1 THEN 0
    ELSE IF text[k] = Space THEN CommaBefore(text, k - 1)
    ELSE IF text[k] = "," THEN k
    ELSE 0
ClosingCommaAt(text) ==
    IF text = <<>> \/ text[Len(text)] \notin {"]", "}"} THEN 0
    ELSE CommaBefore(text, Len(text) - 1)
WithoutChar(text, k) == SubSeq(text, 1, k - 1) \o SubSeq(text, k + 1, Len(text))

\* C18: an array or object text that has a comma right before its closing
\* bracket converts to the same result as the text without that comma.
C18_ClosingCommaIsIgnored ==
    Returned /\ input \in DocInputs /\ ClosingCommaAt(input) > 0 =>
        result = to_json_string(WithoutChar(input, ClosingCommaAt(input)))

\* C18, amended: the same for an array or object that has at least one
\* element or member before that comma; a comma that follows the opening
\* bracket is rejected.
C18_TrailingCommaIsIgnored ==
    Returned /\ input \in DocInputs /\ ClosingCommaAt(input) > 2 =>
        /\ result = to_json_string(WithoutChar(input, ClosingCommaAt(input)))
        /\ result.ok

C18_Witness ==
    /\ Returned
    /\ input = <<"{", Quote, "a", Quote, ":", "1", ",", "}">>
    /\ result = Ok(<<"{", Quote, "a", Quote, ":", "1", "}">>)

\* C19: tokenize is one forward pass that ends: every iteration of its loop
\* dispatches on the character at the cursor and leaves the cursor further
\* on, within the text; the cursor never moves back; so no character is
\* consumed twice and the loop returns after at most Len(input) iterations.
C19_TokenizeIsOneForwardPass ==
    /\ [][pc = "tokenize" =>
            \/ /\ pos < Len(input)
               /\ last'.index = pos
               /\ pos' > pos
               /\ pos' <= Len(input)
            \/ /\ pos >= Len(input)
               /\ pos' = pos
               /\ pc' = "lexed"]_vars
    /\ [][pos' >= pos]_vars
    /\ <>(pc # "tokenize")

C19_Witness ==
    /\ pc = "lexed"
    /\ input = <<"[", "1", ",", "]">>
    /\ pos = Len(input)
    /\ Len(tokens) = 4

\* C16: in the lexer of parser.rs, a structural character { } [ ] : , that
\* the loop meets at offset i yields its token with Location(i, i + 1).
C16_StructuralSpanIsHalfOpen ==
    last.arm = "structural" =>
        LastToken = Located(StructuralToken(input[LastAt]), last.index, last.index + 1)

\* C16, amended: the token has Location(i, i): both ends are the offset of
\* the character, as for every token whose end the lexer counts itself.
C16_StructuralSpanIsTheCharacter ==
    last.arm = "structural" =>
        /\ last.ok
        /\ Len(tokens) = last.collected + 1
        /\ LastToken = Located(StructuralToken(input[LastAt]), last.index, last.index)
        /\ input[LastToken.from + 1] \in {"{", "}", "[", "]", ":", ","}

C16_Witness ==
    /\ input = <<"[", "1", ",", "]">>
    /\ pc = "lexed"
    /\ tokens[1] = Located(OpenBracket, 0, 0)
    /\ tokens[3] = Located(Comma, 2, 2)
    /\ tokens[4] = Located(CloseBracket, 3, 3)

\* C17: when the lexer of parser.rs succeeds, of any two consecutive tokens
\* the first does not start after the second and ends before the second
\* starts: their Locations share no offset.
C17_SpansAreOrderedAndDisjoint ==
    pc = "lexed" /\ lexResult.ok =>
        \A k \in 1..(Len(lexResult.tokens) - 1) :
            LET a == lexResult.tokens[k]
                b == lexResult.tokens[k + 1]
            IN  /\ a.from <= b.from
                /\ a.to < b.from

\* C20: with the Locations dropped, the lexer of parser.rs and the lexer of
\* lexer.rs give the same result on every text: the same tokens, or an error
\* of the same kind.
C20_LexersAgree ==
    pc = "lexed" =>
        LET r == tokenize(input) IN
        /\ lexResult.ok = r.ok
        /\ lexResult.ok =>
              [k \in DOMAIN lexResult.tokens |-> Unlocated(lexResult.tokens[k])]
                  = r.tokens
        /\ ~lexResult.ok => lexResult.err.kind = r.err.kind

\* C21: in the lexer of parser.rs the Location of every token is the offset
\* of its first character and the offset of its last character: the
\* characters the iteration that pushed it consumed, from the one it
\* dispatched on to the one before the cursor.
C21_SpanIsTheTokenText ==
    last.arm # "none" /\ last.ok /\ Len(tokens) = last.collected + 1 =>
        /\ LastToken.from = last.index
        /\ LastToken.to = pos - 1

\* C22: an InvalidChars error of lexer.rs carries a Location that lies
\* inside the text, and the characters of the text at its offsets are the
\* characters it reports.
C22_InvalidCharsIsLocated ==
    pc # "tokenize" /\ ~lexResult.ok /\ lexResult.err.kind = "InvalidChars" =>
        LET e == lexResult.err IN
        /\ e.from <= e.to
        /\ e.to < Len(input)
        /\ SubSeq(input, e.from + 1, e.to + 1) = e.text

\* Objects written member by member, and the text each must serialize to:
\* one member for each name written, the names in ascending order, each
\* with the value written last under it.
NamesAscending == <<(<<"a">>), (<<"b">>)>>
LastWritten(ms, name) ==
    LET at == {k \in DOMAIN ms : ms[k].key = name}
    IN  ms[CHOOSE k \in at : \A j \in at : j <= k].text
ObjectCases ==
    {[text |-> <<"{">> \o Separated([k \in DOMAIN ms |-> ms[k].text]) \o <<"}">>,
      expected |->
          LET names == SelectSeq(NamesAscending,
                           LAMBDA n : \E k \in DOMAIN ms : ms[k].key = n)
          IN  <<"{">> \o Separated([k \in DOMAIN names |->
                                       LastWritten(ms, names[k])]) \o <<"}">>] :
        ms \in SeqsUpTo(DocMembers, MaxItems)}

\* C23: an Object serializes with each of its keys once and its members in
\* ascending key order, whatever the order they were written in; so two
\* objects that hold the same members serialize to the same text.
C23_ObjectKeysAreUniqueAndAscending ==
    /\ Returned /\ input # <<>> /\ input[1] = "{" =>
        \A c \in ObjectCases : input = c.text => result = Ok(c.expected)
    /\ pc \in {"parsed", "done"} /\ parseResult.ok
         /\ parseResult.node.type = "Object" =>
            LET members == parseResult.node.members IN
            \A k \in 1..(Len(members) - 1) :
                StrLess(members[k][1], members[k + 1][1])

C23_Witness ==
    /\ Returned
    /\ input = <<"{", Quote, "b", Quote, ":", "1", ",",
                 Quote, "a", Quote, ":", "t", "r", "u", "e", "}">>
    /\ result = Ok(<<"{", Quote, "a", Quote, ":", "t", "r", "u", "e", ",",
                     Quote, "b", Quote, ":", "1", "}">>)

====
